---- MODULE Spec2Model ----
(***************************************************************************)
(* Model of the real-time voice capture and streaming client of            *)
(* src/src/components/VoiceControl.tsx (a React function component).       *)
(*                                                                         *)
(* State: the React state isConnected / isRecording, the refs of the       *)
(* component (wsRef, audioBufferRef, isProcessingAudioRef, isSleepingRef,  *)
(* hasSpeechInBufferRef, silenceDetectionBufferRef, lastSpeechTimeRef),    *)
(* the capture pipelines and chunk-timer loops started by                  *)
(* startAudioProcessing, and the sockets created by connect.               *)
(*                                                                         *)
(* Closures: startAudioProcessing runs from the effect of the render in    *)
(* which isRecording is true, so the `isRecording` read by the worklet     *)
(* port.onmessage handler (line 488), by the fallback loop (line 525) and  *)
(* by sendChunk (line 583) is the constant TRUE of that render. Those       *)
(* tests therefore never stop a pipeline or a timer loop; only             *)
(* disconnecting the worklet node (stopRecording, disconnect) stops the    *)
(* frames of the pipeline the refs point to.                               *)
(*                                                                         *)
(* Input: the RMS level of the frames changes at most once within any     *)
(* window of silenceDetectionWindow evaluated frames (Steady). The main    *)
(* specification Spec opens a socket only when wsRef holds none that is    *)
(* still alive. SpecMessages feeds a constant input level and lets every   *)
(* inbound message arrive, with its optional fields present or missing.    *)
(*                                                                         *)
(* Units: RMS values and the silence threshold are in 1/10000 (0.005 is    *)
(* 50); times are in milliseconds; a PCM sample is represented by its      *)
(* position in the frame that delivered it (1..FrameLen).                  *)
(***************************************************************************)
EXTENDS Integers, Sequences, FiniteSets, TLC

(* ------------------------------ bounds --------------------------------- *)
\* samples per second (stands for audioConfig.audioQuality)
SampleRate == 8
\* frames are not accepted into a PCM buffer that would exceed this length
MaxBuf == 7
\* time-since-last-speech saturates here (no delay of the model is larger)
MaxSince == 1500

(* ------------------------- program constants --------------------------- *)
silenceDetectionWindow == 10
chunkSize == 250
wakeTimeout == 1000
sleepIntervalFloor == 1000
processingIntervalCap == 100

\* line 580
samplesPerChunk == (SampleRate * chunkSize) \div 1000

\* line 408: samples per frame posted by the worklet. bufferSize is 4096
\* against the 4000 samples of a chunk: a frame is longer than one chunk and
\* no multiple of it.
FrameLen == samplesPerChunk + 1

Min(a, b) == IF a < b THEN a ELSE b
Max(a, b) == IF a < b THEN b ELSE a

\* duration of one frame of FrameLen samples at SampleRate
FrameMs == (FrameLen * 1000) \div SampleRate

\* silenceThreshold options of the configuration panel, in 1/10000
Thresholds == {50}
\* autoCommitDelay options of the configuration panel, in ms
Delays == {1500}
\* RMS values a frame can have, in 1/10000: silence and exactly 0.005
RmsLevels == {0, 50}

VARIABLES
    isConnected,              \* useState, line 42
    isRecording,              \* useState, line 43
    audioConfig,              \* useState, line 45: silenceThreshold, autoCommitDelay
    ws,                       \* wsRef.current: "none" or its readyState
    stale,                    \* readyState of the socket connect replaced, or "none"
    capture,                  \* pipeline the media refs point to: "off" | "on"
    captureConfig,            \* the audioConfig that pipeline's handlers closed over
    orphanCapture,            \* the audioConfig closed over by each pipeline that
                              \* no ref points to and that still delivers frames
    chunkLoops,               \* live sendChunk timer loops: 0, 1, or 2 for more
    audioBuffer,              \* audioBufferRef.current
    isProcessingAudio,        \* isProcessingAudioRef.current
    isSleeping,               \* isSleepingRef.current
    hasSpeechInBuffer,        \* hasSpeechInBufferRef.current
    silenceDetectionBuffer,   \* silenceDetectionBufferRef.current
    since,                    \* Date.now() - lastSpeechTimeRef.current, saturated
    wire,                     \* messages sent on wsRef.current by the last step
    logs,                     \* warning, error and mode-change entries of the last step
    lastAct,                  \* the handler that ran last, or the message it handled
    sessionInfo,              \* sessionIdRef.current and the id of sessionInfo, or "none"
    published,                \* what the last step handed to setTranscription,
                              \* setCommand, setCommandHistory and setResult, and
                              \* the exception it ended with
    inbound,                  \* the message the last step handled
    counted,                  \* what the last step added to chunkCounterRef,
                              \* totalBytesRef, latencySumRef and latencyCountRef
    fed                       \* frames of the scripted input fed so far (SpecScenario)

vars == <<isConnected, isRecording, audioConfig, ws, stale, capture,
          captureConfig, orphanCapture, chunkLoops, audioBuffer, isProcessingAudio, isSleeping,
          hasSpeechInBuffer, silenceDetectionBuffer, since, wire, logs, lastAct,
          sessionInfo, published, inbound, counted, fed>>

(* --------------------------- pure helpers ------------------------------ *)
RECURSIVE Sum(_)
Sum(s) == IF s = <<>> THEN 0 ELSE Head(s) + Sum(Tail(s))

\* the push of line 131 without the shift of lines 132-134
PushWindow_NoShift(w, rms) == Append(w, rms)

\* the push dropping the newest value when the window is full
PushWindow_DropsNewest(w, rms) ==
    IF Len(w) >= silenceDetectionWindow THEN w ELSE Append(w, rms)

\* lines 131-134: push, then shift when longer than the window
PushWindow(w, rms) ==
    LET p == Append(w, rms)
    IN IF Len(p) > silenceDetectionWindow THEN Tail(p) ELSE p

\* the silence test taking a mean equal to the threshold for silence
IsSilent_Inclusive(w, threshold) == Sum(w) <= threshold * Len(w)

\* lines 136-137: avgRms < silenceThreshold, with avgRms = Sum / Len
IsSilent(w, threshold) == Sum(w) < threshold * Len(w)

\* the RMS level changes at most once within the window
Steady(w) == Cardinality({i \in 1..(Len(w) - 1) : w[i] # w[i + 1]}) <= 1

\* lines 220-225: the converted samples of a frame
FrameSamples == [i \in 1..FrameLen |-> i]

(* ------------------- handlers as state transformers -------------------- *)
\* the entries setSleeping and setProcessing write when the mode changes
ModeChanges == {"enter sleep", "wake", "enter processing", "exit processing"}

\* lines 359 and 236: the parsed inbound message {type, session?, response?,
\* error?}. session is message.session.id and error is message.error.message,
\* "absent" when the field is missing; output lists, for each item of
\* message.response.output, its content[0].text ("" when it has none).
Msg(type, session, hasResponse, output, error) ==
    [type |-> type, session |-> session, hasResponse |-> hasResponse,
     output |-> output, error |-> error]

\* no message is being handled
NoMessage == Msg("none", "absent", FALSE, <<>>, "absent")

\* The refs and state cells a handler reads and writes, as one record.
Refs ==
    [ws |-> ws, audioBuffer |-> audioBuffer,
     isProcessingAudio |-> isProcessingAudio, isSleeping |-> isSleeping,
     hasSpeechInBuffer |-> hasSpeechInBuffer,
     silenceDetectionBuffer |-> silenceDetectionBuffer, since |-> since,
     sessionInfo |-> sessionInfo, inbound |-> NoMessage,
     wire |-> <<>>, logs |-> <<>>, published |-> <<>>, counted |-> <<>>]

\* a value handed to one of the setters of lines 60 and 36-40
Publish(r, kind, text) ==
    [r EXCEPT !.published = Append(@, [kind |-> kind, text |-> text])]

\* lines 269-270 and 627-628: n is added to a telemetry ref; these are the only
\* writes to the four refs
Count(r, ref, n) ==
    [r EXCEPT !.counted = Append(@, [ref |-> ref, n |-> n])]

\* a property read on undefined: the handler ends with a TypeError
Throw(r) == Publish(r, "exception", "TypeError")

\* lines 108-118; the warning and error entries and the mode changes are kept
Log(r, entry) ==
    IF entry[1] \in {"warning", "error"} \/ entry[2] \in ModeChanges
    THEN [r EXCEPT !.logs = Append(@, entry)]
    ELSE r

\* setSleeping without the test of line 168
setSleeping_Unguarded(r, sleeping) ==
    Log([r EXCEPT !.isSleeping = sleeping],
        IF sleeping THEN <<"info", "enter sleep">> ELSE <<"info", "wake">>)

\* setSleeping that never leaves the sleep mode
setSleeping_NeverWakes(r, sleeping) ==
    IF sleeping /\ ~r.isSleeping
    THEN Log([r EXCEPT !.isSleeping = TRUE], <<"info", "enter sleep">>)
    ELSE r

\* lines 167-176
setSleeping(r, sleeping) ==
    IF r.isSleeping # sleeping
    THEN Log([r EXCEPT !.isSleeping = sleeping],
             IF sleeping THEN <<"info", "enter sleep">> ELSE <<"info", "wake">>)
    ELSE r

\* lines 178-188
setProcessing(r, processing) ==
    IF r.isProcessingAudio # processing
    THEN LET set == [r EXCEPT !.isProcessingAudio = processing]
         IN IF processing
            THEN Publish(Log(set, <<"info", "enter processing">>),
                         "transcription", "Processing audio...")
            ELSE Log(set, <<"info", "exit processing">>)
    ELSE r

\* sendAudioChunk without the readyState test of line 606
sendAudioChunk_NoOpenTest(r, pcmData) ==
    IF r.isProcessingAudio
    THEN r
    ELSE Count(Count([r EXCEPT !.wire = Append(@, [type |-> "append",
                                                     audio |-> pcmData])],
                     "chunkCounter", 1),
               "totalBytes", 2 * Len(pcmData))

\* sendAudioChunk counting samples where line 628 counts bytes
sendAudioChunk_CountsSamples(r, pcmData) ==
    IF r.ws # "open" \/ r.isProcessingAudio
    THEN r
    ELSE Count(Count([r EXCEPT !.wire = Append(@, [type |-> "append",
                                                     audio |-> pcmData])],
                     "chunkCounter", 1),
               "totalBytes", Len(pcmData))

\* lines 605-630; each 16-bit sample is two bytes (lines 611-616)
sendAudioChunk(r, pcmData) ==
    IF r.ws # "open" \/ r.isProcessingAudio
    THEN r
    ELSE Count(Count([r EXCEPT !.wire = Append(@, [type |-> "append",
                                                     audio |-> pcmData])],
                     "chunkCounter", 1),
               "totalBytes", 2 * Len(pcmData))

\* commitAudioBuffer without line 656
commitAudioBuffer_KeepsSpeech(r) ==
    IF r.ws # "open" \/ r.isProcessingAudio
    THEN Log(r, <<"warning", "cannot commit">>)
    ELSE IF Len(r.audioBuffer) = 0
    THEN Log(r, <<"warning", "no audio data">>)
    ELSE LET sent == sendAudioChunk([r EXCEPT !.audioBuffer = <<>>], r.audioBuffer)
             committed == [sent EXCEPT !.wire = Append(@, [type |-> "commit"])]
         IN setProcessing(committed, TRUE)

\* commitAudioBuffer sending only the first chunk of the residue
commitAudioBuffer_PartialFlush(r) ==
    IF r.ws # "open" \/ r.isProcessingAudio
    THEN Log(r, <<"warning", "cannot commit">>)
    ELSE IF Len(r.audioBuffer) = 0
    THEN Log(r, <<"warning", "no audio data">>)
    ELSE LET n == Min(Len(r.audioBuffer), samplesPerChunk)
             sent == sendAudioChunk(
                         [r EXCEPT !.audioBuffer = SubSeq(@, n + 1, Len(@))],
                         SubSeq(r.audioBuffer, 1, n))
             committed == [sent EXCEPT !.wire = Append(@, [type |-> "commit"])]
         IN [setProcessing(committed, TRUE) EXCEPT !.hasSpeechInBuffer = FALSE]

\* commitAudioBuffer without the empty-buffer test of lines 638-641
commitAudioBuffer_NoEmptyTest(r) ==
    IF r.ws # "open" \/ r.isProcessingAudio
    THEN Log(r, <<"warning", "cannot commit">>)
    ELSE LET committed == [r EXCEPT !.wire = Append(@, [type |-> "commit"])]
         IN [setProcessing(committed, TRUE) EXCEPT !.hasSpeechInBuffer = FALSE]

\* commitAudioBuffer forgetting the speech seen when the buffer is empty
commitAudioBuffer_EmptyForgetsSpeech(r) ==
    IF r.ws # "open" \/ r.isProcessingAudio
    THEN Log(r, <<"warning", "cannot commit">>)
    ELSE IF Len(r.audioBuffer) = 0
    THEN [Log(r, <<"warning", "no audio data">>) EXCEPT !.hasSpeechInBuffer = FALSE]
    ELSE LET sent == sendAudioChunk([r EXCEPT !.audioBuffer = <<>>], r.audioBuffer)
             committed == [sent EXCEPT !.wire = Append(@, [type |-> "commit"])]
         IN [setProcessing(committed, TRUE) EXCEPT !.hasSpeechInBuffer = FALSE]

\* lines 632-662
commitAudioBuffer(r) ==
    IF r.ws # "open" \/ r.isProcessingAudio
    THEN Log(r, <<"warning", "cannot commit">>)
    ELSE IF Len(r.audioBuffer) = 0
    THEN Log(r, <<"warning", "no audio data">>)
    ELSE LET sent == sendAudioChunk([r EXCEPT !.audioBuffer = <<>>], r.audioBuffer)
             committed == [sent EXCEPT !.wire = Append(@, [type |-> "commit"])]
         IN [setProcessing(committed, TRUE) EXCEPT !.hasSpeechInBuffer = FALSE]

\* lines 664-684
clearAudioBuffer(r) ==
    IF r.ws # "open"
    THEN r
    ELSE LET cleared == Log([r EXCEPT !.audioBuffer = <<>>,
                                      !.hasSpeechInBuffer = FALSE,
                                      !.wire = Append(@, [type |-> "clear"])],
                            <<"info", "cleared">>)
         IN IF cleared.isProcessingAudio THEN setProcessing(cleared, FALSE)
            ELSE cleared

\* lines 128-165; dt is the time elapsed since the previous frame
detectSilence(r, cfg, rms, dt) ==
    LET w == PushWindow(r.silenceDetectionBuffer, rms)
        timeSinceLastSpeech == Min(r.since + dt, MaxSince)
        r1 == [r EXCEPT !.silenceDetectionBuffer = w,
                        !.since = timeSinceLastSpeech]
    IN IF ~IsSilent(w, cfg.silenceThreshold)
       THEN setSleeping([r1 EXCEPT !.since = 0, !.hasSpeechInBuffer = TRUE], FALSE)
       ELSE IF /\ cfg.autoCommitDelay > 0
               /\ timeSinceLastSpeech >= cfg.autoCommitDelay
               /\ r1.hasSpeechInBuffer
               /\ ~r1.isProcessingAudio
       THEN commitAudioBuffer(Log(r1, <<"info", "auto-commit">>))
       ELSE IF timeSinceLastSpeech >= wakeTimeout /\ ~r1.hasSpeechInBuffer
       THEN setSleeping(r1, TRUE)
       ELSE r1

\* lines 210-234; samples are the converted PCM values of the frame
processAudioData(r, cfg, rms, dt, samples) ==
    LET r1 == detectSilence(r, cfg, rms, dt)
    IN IF r1.isSleeping \/ r1.isProcessingAudio
       THEN r1
       ELSE [r1 EXCEPT !.audioBuffer = @ \o samples]

\* the port.onmessage handler without the processing test of line 488
onAudioData_NoProcessingTest(r, cfg, rms, dt, samples) ==
    processAudioData(r, cfg, rms, dt, samples)

\* lines 486-492: the port.onmessage handler of the worklet node
onAudioData(r, cfg, rms, dt, samples) ==
    IF ~r.isProcessingAudio
    THEN processAudioData(r, cfg, rms, dt, samples)
    ELSE [r EXCEPT !.since = Min(@ + dt, MaxSince)]

\* sendChunk without the sleeping test of line 585
sendChunk_WhileSleeping(r) ==
    IF /\ ~r.isProcessingAudio
       /\ Len(r.audioBuffer) >= samplesPerChunk
    THEN sendAudioChunk(
             [r EXCEPT !.audioBuffer =
                  SubSeq(@, samplesPerChunk + 1, Len(@))],
             SubSeq(r.audioBuffer, 1, samplesPerChunk))
    ELSE r

\* sendChunk without the length test of line 585
sendChunk_NoLengthTest(r) ==
    IF /\ ~r.isProcessingAudio
       /\ ~r.isSleeping
       /\ Len(r.audioBuffer) > 0
    THEN LET n == Min(Len(r.audioBuffer), samplesPerChunk)
         IN sendAudioChunk([r EXCEPT !.audioBuffer = SubSeq(@, n + 1, Len(@))],
                           SubSeq(r.audioBuffer, 1, n))
    ELSE r

\* sendChunk taking whatever is buffered once a chunk is there
sendChunk_TakesAll(r) ==
    IF /\ ~r.isProcessingAudio
       /\ ~r.isSleeping
       /\ Len(r.audioBuffer) >= samplesPerChunk
    THEN sendAudioChunk([r EXCEPT !.audioBuffer = <<>>], r.audioBuffer)
    ELSE r

\* lines 582-600: one firing of the chunk timer
sendChunk(r) ==
    IF /\ ~r.isProcessingAudio
       /\ ~r.isSleeping
       /\ Len(r.audioBuffer) >= samplesPerChunk
    THEN sendAudioChunk(
             [r EXCEPT !.audioBuffer =
                  SubSeq(@, samplesPerChunk + 1, Len(@))],
             SubSeq(r.audioBuffer, 1, samplesPerChunk))
    ELSE r

\* lines 590-596: the delay before the next firing
nextInterval(r) ==
    IF r.isSleeping THEN Max(chunkSize * 4, sleepIntervalFloor)
    ELSE IF r.isProcessingAudio THEN Min(chunkSize, processingIntervalCap)
    ELSE chunkSize

\* line 320: command.trim() is empty
IsBlank(text) == text \in {"", " "}

\* lines 319-344
processVoiceCommand(r, command) ==
    IF IsBlank(command)
    THEN Publish(r, "result.failure", "No speech detected. Please try again.")
    ELSE Log(Publish(r, "result.success", command),
             <<"success", "voice command executed">>)

\* the text of the last output item instead of the first
transcriptOf_LastItem(message) ==
    IF message.output = <<>> THEN "" ELSE message.output[Len(message.output)]

\* lines 275-278: the text of the first output item, "" when there is none
transcriptOf(message) ==
    IF message.output = <<>> THEN "" ELSE message.output[1]

\* the default branch also leaving the processing mode
handleUnknown_EndsProcessing(r) ==
    setProcessing(Log(r, <<"warning", "unknown message type">>), FALSE)

\* lines 304-306: the default branch of the switch
handleUnknown(r) ==
    Log(r, <<"warning", "unknown message type">>)

\* lines 237 and 268: Date.now() - startTime, where startTime was read by the
\* first statement of the same call of the handler; the statements between
\* the two readings take less than the clock's resolution
responseTime == 0

\* lines 236-307; the result text of line 299 is the error message after the
\* fixed prefix "Server error: "
handleServerMessage(r, message) ==
    LET r0 == Log([r EXCEPT !.inbound = message], <<"info", "received">>)
        type == message.type
    IN CASE type = "session.created" ->
                IF message.session = "absent" THEN Throw(r0)
                ELSE Log([r0 EXCEPT !.sessionInfo = message.session],
                         <<"success", "session created">>)
         [] type = "input_audio_buffer.committed" ->
                setProcessing(Log(r0, <<"success", "buffer committed">>), TRUE)
         [] type = "response.created" ->
                IF ~message.hasResponse THEN Throw(r0)
                ELSE Log(r0, <<"success", "response created">>)
         [] type = "response.done" ->
                LET timed == Count(Count(r0, "latencySum", responseTime),
                                   "latencyCount", 1)
                    r1 == [setProcessing(timed, FALSE) EXCEPT !.hasSpeechInBuffer = FALSE]
                    text == transcriptOf(message)
                    r2 == IF text # ""
                          THEN processVoiceCommand(
                                   Publish(Publish(Publish(r1, "transcription", text),
                                                   "command", text),
                                           "history", text),
                                   text)
                          ELSE r1
                IN IF ~message.hasResponse THEN Throw(r1)
                   ELSE Log(r2, <<"success", "transcription completed">>)
         [] type = "error" ->
                IF message.error = "absent" THEN Throw(r0)
                ELSE Publish(setProcessing(Log(r0, <<"error", "server error">>), FALSE),
                             "result.failure", message.error)
         [] type \in {"session.updated", "response.audio.delta"} ->
                Log(r0, <<"info", type>>)
         [] OTHER -> handleUnknown(r0)

\* the message kinds the remote service can send
ServerMessageTypes ==
    {"session.created", "session.updated", "input_audio_buffer.committed",
     "response.created", "response.done", "error", "unknown"}

\* the message.response.output lists the service sends; "" stands for an
\* item without text
Outputs == {<<>>, <<"">>, <<" ">>, <<"hi">>, <<"hi", "yo">>, <<"", "hi">>}

\* well-formed messages whose response carries no output item; the session
\* identity, which no handler reads, is left to ServerMessages
PlainMessages ==
    {Msg(t, "absent", TRUE, <<>>, "failed") :
        t \in ServerMessageTypes \ {"session.created"}}

\* every message the remote service can send, the optional fields present or not
ServerMessages ==
    {Msg("session.created", sid, FALSE, <<>>, "absent") : sid \in {"absent", "s1"}}
    \cup {Msg("response.created", "absent", h, <<>>, "absent") : h \in BOOLEAN}
    \cup {Msg("response.done", "absent", TRUE, o, "absent") : o \in Outputs}
    \cup {Msg("response.done", "absent", FALSE, <<>>, "absent")}
    \cup {Msg("error", "absent", FALSE, <<>>, e) : e \in {"absent", "failed"}}
    \cup {Msg(t, "absent", FALSE, <<>>, "absent") :
             t \in {"session.updated", "input_audio_buffer.committed", "unknown"}}

(* ------------------------------ actions -------------------------------- *)
\* Write back the refs of a handler's result.
SetRefs(r) ==
    /\ ws' = r.ws
    /\ audioBuffer' = r.audioBuffer
    /\ isProcessingAudio' = r.isProcessingAudio
    /\ isSleeping' = r.isSleeping
    /\ hasSpeechInBuffer' = r.hasSpeechInBuffer
    /\ silenceDetectionBuffer' = r.silenceDetectionBuffer
    /\ since' = r.since
    /\ wire' = r.wire
    /\ logs' = r.logs
    /\ sessionInfo' = r.sessionInfo
    /\ published' = r.published
    /\ inbound' = r.inbound
    /\ counted' = r.counted

Alive == {"connecting", "open", "closing"}

Init ==
    /\ isConnected = FALSE
    /\ isRecording = FALSE
    /\ audioConfig \in [silenceThreshold : Thresholds, autoCommitDelay : Delays]
    /\ ws = "none"
    /\ stale = "none"
    /\ capture = "off"
    /\ captureConfig = audioConfig
    /\ orphanCapture = {}
    /\ chunkLoops = 0
    /\ audioBuffer = <<>>
    /\ isProcessingAudio = FALSE
    /\ isSleeping = FALSE
    /\ hasSpeechInBuffer = FALSE
    /\ silenceDetectionBuffer = <<>>
    /\ since = 0
    /\ wire = <<>>
    /\ logs = <<>>
    /\ lastAct = "init"
    /\ sessionInfo = "none"
    /\ published = <<>>
    /\ inbound = NoMessage
    /\ counted = <<>>
    /\ fed = 0

\* lines 346-377, from the Connect button (line 829); wsRef holds no live socket
connect ==
    /\ ~isConnected
    /\ ws \notin Alive
    /\ SetRefs([Refs EXCEPT !.ws = "connecting"])
    /\ lastAct' = "connect"
    /\ UNCHANGED <<fed, isConnected, isRecording, audioConfig, stale, capture, captureConfig,
                   orphanCapture, chunkLoops>>

\* lines 346-377: connect while wsRef holds a live socket, which stays alive
connectReplacing ==
    /\ ~isConnected
    /\ ws \in Alive
    /\ stale = "none"
    /\ stale' = ws
    /\ SetRefs([Refs EXCEPT !.ws = "connecting"])
    /\ lastAct' = "connectReplacing"
    /\ UNCHANGED <<fed, isConnected, isRecording, audioConfig, capture, captureConfig,
                   orphanCapture, chunkLoops>>

\* lines 353-356: onopen of the socket wsRef points to
onopen ==
    /\ ws = "connecting"
    /\ isConnected' = TRUE
    /\ SetRefs([Refs EXCEPT !.ws = "open"])
    /\ lastAct' = "onopen"
    /\ UNCHANGED <<fed, isRecording, audioConfig, stale, capture, captureConfig, orphanCapture,
                   chunkLoops>>

\* onclose without the setProcessing(false) of line 365
onclose_KeepsProcessing ==
    /\ ws \in Alive
    /\ isConnected' = FALSE
    /\ isRecording' = FALSE
    /\ SetRefs(Log([Refs EXCEPT !.ws = "closed"], <<"warning", "connection closed">>))
    /\ lastAct' = "onclose"
    /\ UNCHANGED <<fed, audioConfig, stale, capture, captureConfig, orphanCapture, chunkLoops>>

\* onclose opening a new socket by itself
onclose_Reconnects ==
    /\ ws \in Alive
    /\ isConnected' = FALSE
    /\ isRecording' = FALSE
    /\ SetRefs(Log(setProcessing([Refs EXCEPT !.ws = "connecting"], FALSE),
                   <<"warning", "connection closed">>))
    /\ lastAct' = "onclose"
    /\ UNCHANGED <<fed, audioConfig, stale, capture, captureConfig, orphanCapture, chunkLoops>>

\* lines 362-367: onclose of the socket wsRef points to (refused, closed by
\* the server, or closed after close())
onclose ==
    /\ ws \in Alive
    /\ isConnected' = FALSE
    /\ isRecording' = FALSE
    /\ SetRefs(Log(setProcessing([Refs EXCEPT !.ws = "closed"], FALSE),
                   <<"warning", "connection closed">>))
    /\ lastAct' = "onclose"
    /\ UNCHANGED <<fed, audioConfig, stale, capture, captureConfig, orphanCapture, chunkLoops>>

\* lines 353-356: onopen of the replaced socket
staleOnopen ==
    /\ stale = "connecting"
    /\ stale' = "open"
    /\ isConnected' = TRUE
    /\ SetRefs(Refs)
    /\ lastAct' = "staleOnopen"
    /\ UNCHANGED <<fed, isRecording, audioConfig, capture, captureConfig, orphanCapture, chunkLoops>>

\* lines 362-367: onclose of the replaced socket
staleOnclose ==
    /\ stale \in Alive
    /\ stale' = "none"
    /\ isConnected' = FALSE
    /\ isRecording' = FALSE
    /\ SetRefs(Log(setProcessing(Refs, FALSE), <<"warning", "connection closed">>))
    /\ lastAct' = "staleOnclose"
    /\ UNCHANGED <<fed, audioConfig, capture, captureConfig, orphanCapture, chunkLoops>>

\* lines 379-396, from the Disconnect button (line 829)
disconnect ==
    /\ isConnected
    /\ isConnected' = FALSE
    /\ isRecording' = FALSE
    /\ capture' = "off"
    /\ SetRefs(setSleeping(setProcessing(
           [Refs EXCEPT !.ws = IF @ \in {"connecting", "open"} THEN "closing" ELSE @],
           FALSE), FALSE))
    /\ lastAct' = "disconnect"
    /\ UNCHANGED <<fed, audioConfig, stale, captureConfig, orphanCapture, chunkLoops>>

\* lines 398-400, the effect of lines 102-106 and lines 447-508, from the
\* Start button (line 840): the device and the worklet are available
startRecording ==
    /\ isConnected /\ ~isRecording
    /\ isRecording' = TRUE
    /\ orphanCapture' = orphanCapture \cup (IF capture = "on" THEN {captureConfig} ELSE {})
    /\ capture' = "on"
    /\ captureConfig' = audioConfig
    /\ chunkLoops' = IF chunkLoops = 0 THEN 1 ELSE 2
    /\ SetRefs([Refs EXCEPT !.hasSpeechInBuffer = FALSE, !.since = 0])
    /\ lastAct' = "startRecording"
    /\ UNCHANGED <<fed, isConnected, audioConfig, stale>>

\* a rejected getUserMedia that also closes the socket
startRecordingNoDevice_Disconnects ==
    /\ isConnected /\ ~isRecording
    /\ isRecording' = TRUE
    /\ isConnected' = FALSE
    /\ SetRefs(Log([Refs EXCEPT !.ws = "closing"],
                   <<"error", "failed to start recording">>))
    /\ lastAct' = "startRecordingNoDevice"
    /\ UNCHANGED <<fed, audioConfig, stale, capture, captureConfig, orphanCapture,
                   chunkLoops>>

\* lines 398-400, 102-106, 453 and 505-507: getUserMedia rejects
startRecordingNoDevice ==
    /\ isConnected /\ ~isRecording
    /\ isRecording' = TRUE
    /\ SetRefs(Log(Refs, <<"error", "failed to start recording">>))
    /\ lastAct' = "startRecordingNoDevice"
    /\ UNCHANGED <<fed, isConnected, audioConfig, stale, capture, captureConfig, orphanCapture,
                   chunkLoops>>

\* lines 549-575, from the Stop button (line 840)
stopRecording ==
    /\ isConnected /\ isRecording
    /\ isRecording' = FALSE
    /\ capture' = "off"
    /\ SetRefs(Log(setProcessing(setSleeping(Refs, FALSE), FALSE),
                   <<"warning", "recording stopped">>))
    /\ lastAct' = "stopRecording"
    /\ UNCHANGED <<fed, isConnected, audioConfig, stale, captureConfig, orphanCapture,
                   chunkLoops>>

\* the configurations the live pipelines closed over: port.onmessage keeps
\* the processAudioData, and through it the detectSilence (line 165), of the
\* render that started the pipeline
LiveConfigs ==
    (IF capture = "on" THEN {captureConfig} ELSE {}) \cup orphanCapture

\* lines 486-492: a frame of RMS level rms posted by a live worklet node
frameOf(rms) ==
    /\ \E cfg \in LiveConfigs :
          LET r == onAudioData(Refs, cfg, rms, FrameMs, FrameSamples)
          IN /\ Len(r.audioBuffer) <= MaxBuf
             /\ SetRefs(r)
    /\ lastAct' = "frame"
    /\ UNCHANGED <<isConnected, isRecording, audioConfig, stale, capture, captureConfig,
                   orphanCapture, chunkLoops>>

\* a frame of the steady input signal
frame ==
    /\ \E rms \in RmsLevels : frameOf(rms)
    /\ Steady(silenceDetectionBuffer')
    /\ UNCHANGED fed

\* lines 582-600: a chunk timer fires
chunkTimer ==
    /\ chunkLoops > 0
    /\ SetRefs(sendChunk(Refs))
    /\ lastAct' = "chunkTimer"
    /\ UNCHANGED <<fed, isConnected, isRecording, audioConfig, stale, capture, captureConfig,
                   orphanCapture, chunkLoops>>

\* lines 853-854: the Commit Audio button.  Its disabled test reads
\* audioStats.bufferSize and isProcessingAudioRef as of the last render, which
\* lag the refs (lines 233, 315); the handler re-tests the refs itself, so the
\* button is taken to be pressable whenever the component shows Connected.
manualCommit ==
    /\ isConnected
    /\ SetRefs(commitAudioBuffer(Refs))
    /\ lastAct' = "manualCommit"
    /\ UNCHANGED <<fed, isConnected, isRecording, audioConfig, stale, capture, captureConfig,
                   orphanCapture, chunkLoops>>

\* lines 860-861: the Clear Buffer button, enabled as the Commit button is
manualClear ==
    /\ isConnected
    /\ SetRefs(clearAudioBuffer(Refs))
    /\ lastAct' = "manualClear"
    /\ UNCHANGED <<fed, isConnected, isRecording, audioConfig, stale, capture, captureConfig,
                   orphanCapture, chunkLoops>>

\* lines 358-360: a message arrives on the socket wsRef points to
onmessage ==
    /\ ws = "open"
    /\ \E message \in PlainMessages :
          /\ SetRefs(handleServerMessage(Refs, message))
          /\ lastAct' = message.type
    /\ UNCHANGED <<fed, isConnected, isRecording, audioConfig, stale, capture, captureConfig,
                   orphanCapture, chunkLoops>>

\* lines 358-360: a message arrives on the replaced socket
staleOnmessage ==
    /\ stale = "open"
    /\ \E message \in PlainMessages :
          /\ SetRefs(handleServerMessage(Refs, message))
          /\ lastAct' = message.type
    /\ UNCHANGED <<fed, isConnected, isRecording, audioConfig, stale, capture, captureConfig,
                   orphanCapture, chunkLoops>>

Next ==
    \/ connect
    \/ onopen
    \/ onclose
    \/ disconnect
    \/ startRecording
    \/ startRecordingNoDevice
    \/ stopRecording
    \/ frame
    \/ chunkTimer
    \/ manualCommit
    \/ manualClear
    \/ onmessage

Spec == Init /\ [][Next]_vars

(* ------------------- inbound messages with payloads -------------------- *)
\* the input level never changes
Constant(w) == \A i \in DOMAIN w : w[i] = w[1]

\* a frame of an input signal of one constant level
frameConstant ==
    /\ \E rms \in RmsLevels : frameOf(rms)
    /\ Constant(silenceDetectionBuffer')
    /\ UNCHANGED fed

\* lines 358-360: any message of the service arrives on the socket of wsRef
onmessageAny ==
    /\ ws = "open"
    /\ \E message \in ServerMessages :
          /\ SetRefs(handleServerMessage(Refs, message))
          /\ lastAct' = message.type
    /\ UNCHANGED <<fed, isConnected, isRecording, audioConfig, stale, capture, captureConfig,
                   orphanCapture, chunkLoops>>

NextMessages ==
    \/ connect
    \/ onopen
    \/ onclose
    \/ disconnect
    \/ startRecording
    \/ startRecordingNoDevice
    \/ stopRecording
    \/ frameConstant
    \/ chunkTimer
    \/ manualCommit
    \/ manualClear
    \/ onmessageAny

\* the client under a constant input level and every inbound message
SpecMessages == Init /\ [][NextMessages]_vars

(* ------------------- the configuration panel --------------------------- *)
\* lines 791-803: options of the Silence Threshold select, in 1/10000
\* (0.005 and 0.01 of 0.001, 0.005, 0.01, 0.02)
ThresholdOptions == {50, 100}
\* lines 808-821: options of the Auto-commit Delay select, in ms (1.5 seconds
\* and Disabled of 1000, 1500, 2000, 3000, 0)
DelayOptions == {0, 1500}

\* lines 791-793 and 808-810: onChange of the Silence Threshold and the
\* Auto-commit Delay selects, which carry no disabled attribute and are
\* rendered in every state of the component
setAudioConfig ==
    /\ \/ \E t \in ThresholdOptions \ {audioConfig.silenceThreshold} :
             audioConfig' = [audioConfig EXCEPT !.silenceThreshold = t]
       \/ \E d \in DelayOptions \ {audioConfig.autoCommitDelay} :
             audioConfig' = [audioConfig EXCEPT !.autoCommitDelay = d]
    /\ SetRefs(Refs)
    /\ lastAct' = "setAudioConfig"
    /\ UNCHANGED <<fed, isConnected, isRecording, stale, capture, captureConfig,
                   orphanCapture, chunkLoops>>

NextConfig ==
    \/ connect
    \/ onopen
    \/ disconnect
    \/ setAudioConfig
    \/ startRecording
    \/ stopRecording
    \/ frame
    \/ chunkTimer
    \/ manualCommit

\* the client with a user who also changes the configuration
SpecConfig == Init /\ [][NextConfig]_vars

(* --------------------- the scenario of section 8 ----------------------- *)
\* threshold 0.005, autoCommitDelay 1500 ms, 2000 ms of RMS 0.5, then RMS
\* 0.0005 (1600 ms of it in the scenario as stated)
Scenario ==
    [silenceThreshold |-> 50, autoCommitDelay |-> 1500,
     loudRms |-> 5000, quietRms |-> 5, loudMs |-> 2000, quietMs |-> 1600]

LoudFrames == Scenario.loudMs \div FrameMs
QuietFrames == Scenario.quietMs \div FrameMs
\* frames until time-since-last-speech reaches the delay
DelayFrames == (Scenario.autoCommitDelay + FrameMs - 1) \div FrameMs
\* the frame at which the loud values have left the window and the delay
\* has then elapsed
CommitFrame == LoudFrames + (silenceDetectionWindow - 1) + DelayFrames
ScriptLen == CommitFrame + QuietFrames

ScriptRms(i) == IF i <= LoudFrames THEN Scenario.loudRms ELSE Scenario.quietRms

\* connected and recording, as startRecording leaves a fresh session
FreshRecording ==
    /\ isConnected = TRUE
    /\ isRecording = TRUE
    /\ audioConfig = [silenceThreshold |-> Scenario.silenceThreshold,
                      autoCommitDelay |-> Scenario.autoCommitDelay]
    /\ ws = "open"
    /\ stale = "none"
    /\ capture = "on"
    /\ captureConfig = audioConfig
    /\ orphanCapture = {}
    /\ chunkLoops = 1
    /\ audioBuffer = <<>>
    /\ isProcessingAudio = FALSE
    /\ isSleeping = FALSE
    /\ hasSpeechInBuffer = FALSE
    /\ silenceDetectionBuffer = <<>>
    /\ since = 0
    /\ wire = <<>>
    /\ logs = <<>>
    /\ lastAct = "startRecording"
    /\ sessionInfo = "none"
    /\ published = <<>>
    /\ inbound = NoMessage
    /\ counted = <<>>

\* the recording starts with the loud part of the script
InitScenario == FreshRecording /\ fed = 0

\* the next frame of the script
scriptFrame ==
    /\ fed < ScriptLen
    /\ frameOf(ScriptRms(fed + 1))
    /\ fed' = fed + 1

NextScenario ==
    \/ scriptFrame
    \/ chunkTimer

SpecScenario == InitScenario /\ [][NextScenario]_vars

\* the recording starts with the loud part of the script or one frame into it
InitLive == FreshRecording /\ fed \in {0, 1}

\* the next frame of the script, whose quiet part goes on for ever
liveFrame ==
    /\ frameOf(ScriptRms(Min(fed + 1, ScriptLen)))
    /\ fed' = Min(fed + 1, ScriptLen)

NextLive ==
    \/ liveFrame
    \/ chunkTimer

\* the scenario with a worklet that keeps posting frames (lines 486-492) and
\* a chunk timer that keeps firing (lines 582-600, re-armed at line 599)
SpecLive ==
    InitLive /\ [][NextLive]_vars /\ WF_vars(liveFrame) /\ WF_vars(chunkTimer)

(* ------------------ the wait for a transcription ----------------------- *)
\* frames for which the wait for the reply to a commit is followed
MaxWait == 6

\* the refs of a fresh recording after one frame of speech (lines 398-400,
\* 447-508 and 486-492)
SpokenRefs ==
    [ws |-> "open", audioBuffer |-> FrameSamples,
     isProcessingAudio |-> FALSE, isSleeping |-> FALSE,
     hasSpeechInBuffer |-> TRUE,
     silenceDetectionBuffer |-> <<50>>, since |-> 0,
     sessionInfo |-> "none", inbound |-> NoMessage,
     wire |-> <<>>, logs |-> <<>>, published |-> <<>>, counted |-> <<>>]

\* lines 853-854 and 632-662: the Commit Audio button has been pressed right
\* after that frame, and the commit message has just been sent
CommitSent ==
    /\ isConnected = TRUE
    /\ isRecording = TRUE
    /\ audioConfig = [silenceThreshold |-> 50, autoCommitDelay |-> 1500]
    /\ stale = "none"
    /\ capture = "on"
    /\ captureConfig = audioConfig
    /\ orphanCapture = {}
    /\ chunkLoops = 1
    /\ LET r == commitAudioBuffer(SpokenRefs)
       IN /\ ws = r.ws
          /\ audioBuffer = r.audioBuffer
          /\ isProcessingAudio = r.isProcessingAudio
          /\ isSleeping = r.isSleeping
          /\ hasSpeechInBuffer = r.hasSpeechInBuffer
          /\ silenceDetectionBuffer = r.silenceDetectionBuffer
          /\ since = r.since
          /\ wire = r.wire
          /\ logs = r.logs
          /\ sessionInfo = r.sessionInfo
          /\ published = r.published
          /\ inbound = r.inbound
          /\ counted = r.counted
    /\ lastAct = "manualCommit"

\* fed counts the frames posted since the commit was sent
InitLatency == CommitSent /\ fed = 0

\* lines 486-492: a frame posted while the reply is awaited
awaitFrame ==
    /\ isProcessingAudio
    /\ fed < MaxWait
    /\ \E rms \in RmsLevels : frameOf(rms)
    /\ fed' = fed + 1

\* lines 582-600: a chunk timer fires while the reply is awaited
awaitTimer == isProcessingAudio /\ chunkTimer

\* lines 358-360: a message arrives while the reply is awaited
awaitMessage == isProcessingAudio /\ onmessageAny

NextLatency ==
    \/ awaitFrame
    \/ awaitTimer
    \/ awaitMessage

\* the client from the sending of a commit to the end of the Processing mode
SpecLatency == InitLatency /\ [][NextLatency]_vars

(* ------------------- while a commit is outstanding --------------------- *)
NextOutstanding ==
    \/ manualClear
    \/ stopRecording
    \/ startRecording
    \/ frame
    \/ chunkTimer
    \/ manualCommit

\* the client from the sending of a commit on, as long as the service sends
\* neither response.done nor error and the connection is kept
SpecOutstanding == InitLatency /\ [][NextOutstanding]_vars

(* ------------------------ replaced sockets ----------------------------- *)
NextStale ==
    \/ connect
    \/ connectReplacing
    \/ onopen
    \/ onclose
    \/ staleOnopen
    \/ staleOnclose
    \/ staleOnmessage
    \/ disconnect
    \/ startRecording
    \/ stopRecording
    \/ frameConstant
    \/ chunkTimer
    \/ manualCommit

\* the client with a user who presses Connect while the socket of an earlier
\* connect or disconnect is still connecting, open or closing
SpecStale == Init /\ [][NextStale]_vars

(* ------------------------------ claims --------------------------------- *)
Sent(w, t) == \E i \in DOMAIN w : w[i].type = t

\* the samples carried by the append messages of w
RECURSIVE Payload(_)
Payload(w) ==
    IF w = <<>> THEN <<>>
    ELSE (IF Head(w).type = "append" THEN Head(w).audio ELSE <<>>) \o Payload(Tail(w))

\* C1: no append and no commit is sent while the processing flag is set or
\* while the socket of wsRef is not open, whichever handler sends.
C1_NoSendUnlessOpenAndIdle ==
    [][(Sent(wire', "append") \/ Sent(wire', "commit"))
           => (ws = "open" /\ ~isProcessingAudio)]_vars

C1_Witness ==
    /\ lastAct = "chunkTimer"
    /\ Sent(wire, "append")
    /\ ws = "open"

\* C2: sleeping and processing are never both set, either is set only while
\* recording, and recording is set only while connected.
C2_FlagsSynchronized ==
    /\ ~(isSleeping /\ isProcessingAudio)
    /\ (isSleeping \/ isProcessingAudio) => isRecording
    /\ isRecording => isConnected

\* C3: an auto-commit is sent only by a frame evaluated outside Processing
\* with speech seen, it enters Processing and clears the speech-seen flag,
\* no frame is evaluated while Processing, and the speech-seen flag is set
\* again only by a frame whose smoothed energy reaches the threshold; so one
\* episode of speech never yields two auto-commits.
C3_AutoCommitOncePerEpisode ==
    [][/\ (lastAct' = "frame" /\ Sent(wire', "commit"))
            => /\ ~isProcessingAudio /\ hasSpeechInBuffer
               /\ isProcessingAudio' /\ ~hasSpeechInBuffer'
       /\ (lastAct' = "frame" /\ isProcessingAudio)
            => /\ wire' = <<>>
               /\ UNCHANGED <<hasSpeechInBuffer, silenceDetectionBuffer>>
       /\ (~hasSpeechInBuffer /\ hasSpeechInBuffer')
            => /\ lastAct' = "frame" /\ ~isProcessingAudio
               /\ ~IsSilent(silenceDetectionBuffer', audioConfig.silenceThreshold)
      ]_vars

C3_Witness ==
    /\ lastAct = "frame"
    /\ Sent(wire, "commit")
    /\ isProcessingAudio /\ ~hasSpeechInBuffer
    /\ since >= audioConfig.autoCommitDelay

\* C4: a frame evaluated with smoothed energy below the threshold, no speech
\* seen and at least wakeTimeout since the last speech leaves the session
\* Sleeping, and the transition is made (and logged) only if it was not
\* Sleeping already.
C4_SleepsOnce ==
    [][(/\ lastAct' = "frame" /\ ~isProcessingAudio /\ ~hasSpeechInBuffer
        /\ IsSilent(silenceDetectionBuffer', audioConfig.silenceThreshold)
        /\ since' >= wakeTimeout)
           => /\ isSleeping'
              /\ logs' = IF isSleeping THEN <<>> ELSE <<(<<"info", "enter sleep">>)>>
      ]_vars

C4_Witness ==
    /\ lastAct = "frame"
    /\ isSleeping /\ ~isProcessingAudio
    /\ since >= wakeTimeout
    /\ logs = <<>>

\* C5 as stated: once the 2000 ms of RMS 0.5 and the 1600 ms of RMS 0.0005
\* have been fed, the auto-commit has been sent.
C5_Original == (fed = LoudFrames + QuietFrames) => isProcessingAudio

\* C5 amended: no commit is sent before the frame at which
\* time-since-last-speech reaches the delay, counted from the last frame
\* whose smoothed energy (the loud values still in the window) reached the
\* threshold; the first frame from then on that finds the buffer non-empty
\* sends the only commit, after the residue; and every sample that left the
\* buffer was sent in an append.
C5_CommitAfterWindowTurnover ==
    /\ [](fed < CommitFrame => ~isProcessingAudio)
    /\ [][/\ Sent(wire', "commit") <=>
               (/\ lastAct' = "frame" /\ fed' >= CommitFrame
                /\ ~isProcessingAudio /\ audioBuffer # <<>>)
          /\ isProcessingAudio => isProcessingAudio'
          /\ Len(audioBuffer') < Len(audioBuffer)
               => Payload(wire') =
                    SubSeq(audioBuffer, 1, Len(audioBuffer) - Len(audioBuffer'))
         ]_vars

C5_Witness ==
    /\ fed = CommitFrame
    /\ lastAct = "frame"
    /\ Sent(wire, "commit")
    /\ isProcessingAudio

\* C6: a step that sends a commit sends exactly one append carrying the
\* whole buffer and then the commit, empties the buffer, sets the
\* processing flag and clears the speech-seen flag.
C6_CommitFlushesResidue ==
    [][Sent(wire', "commit")
           => /\ audioBuffer # <<>>
              /\ wire' = <<[type |-> "append", audio |-> audioBuffer],
                            [type |-> "commit"]>>
              /\ audioBuffer' = <<>>
              /\ isProcessingAudio' /\ ~hasSpeechInBuffer'
      ]_vars

C6_Witness ==
    /\ lastAct = "manualCommit"
    /\ Len(wire) = 2
    /\ Len(wire[1].audio) > samplesPerChunk
    /\ isProcessingAudio

\* C7 as stated: a frame delivered while Processing is appended to the buffer.
C7_Original ==
    [][(lastAct' = "frame" /\ isProcessingAudio)
           => audioBuffer' = audioBuffer \o FrameSamples]_vars

\* C7 amended: a frame delivered while Processing is dropped; the buffer,
\* the energy window and the flags are unchanged and nothing is sent.
C7_FramesDroppedWhileProcessing ==
    [][(lastAct' = "frame" /\ isProcessingAudio)
           => /\ UNCHANGED <<audioBuffer, silenceDetectionBuffer, isSleeping,
                             isProcessingAudio, hasSpeechInBuffer>>
              /\ wire' = <<>>]_vars

C7_Witness ==
    /\ lastAct = "frame"
    /\ isProcessingAudio
    /\ wire = <<>>
    /\ audioBuffer = <<>>

C9_AppendOnlyWhileRecording ==
    [][lastAct' = "frame"
           => /\ (audioBuffer' # audioBuffer)
                    => (isConnected /\ isRecording /\ ~isProcessingAudio)
              /\ (isConnected /\ isRecording /\ isSleeping /\ ~isProcessingAudio)
                    => audioBuffer' = audioBuffer \o FrameSamples]_vars

\* C10: after response.done is handled while Processing during a recording,
\* the processing, sleeping and speech-seen flags are all false.
C10_DoneReturnsToActive ==
    [][(lastAct' = "response.done" /\ isProcessingAudio /\ isRecording)
           => (~isProcessingAudio' /\ ~isSleeping' /\ ~hasSpeechInBuffer')]_vars

\* the texts handed to the setter `kind` by the step that produced p
TextsOf(p, kind) == {p[i].text : i \in {j \in DOMAIN p : p[j].kind = kind}}

\* how many values the step that produced p handed to the setter `kind`
CountOf(p, kind) == Cardinality({j \in DOMAIN p : p[j].kind = kind})

\* C11: a well-formed response.done whose first output item carries text
\* publishes exactly that text as transcription, as command and as head of
\* the command history, once each; one whose output has no item, or whose
\* first item has no text, publishes nothing.
C11_TranscriptPublishedExactly ==
    [][(lastAct' = "response.done" /\ inbound'.hasResponse)
           => LET out == inbound'.output
              IN IF out # <<>> /\ out[1] # ""
                 THEN \A kind \in {"transcription", "command", "history"} :
                          /\ TextsOf(published', kind) = {out[1]}
                          /\ CountOf(published', kind) = 1
                 ELSE published' = <<>>]_vars

C11_Witness ==
    /\ lastAct = "response.done"
    /\ inbound.output = <<"hi", "yo">>
    /\ TextsOf(published, "command") = {"hi"}

\* C12: an error message handled while Processing during a recording leaves
\* the session RecordingActive and publishes a failure result, without an
\* exception, whether or not the message carries the error payload.
C12_ErrorReturnsToActive ==
    [][(lastAct' = "error" /\ isProcessingAudio /\ isRecording)
           => /\ ~isProcessingAudio'
              /\ ~isSleeping'
              /\ CountOf(published', "result.failure") = 1
              /\ CountOf(published', "exception") = 0]_vars

C15_IdentityClearedOnDisconnect ==
    ~isConnected => sessionInfo = "none"

\* C16: a manual commit with an empty PCM buffer sends nothing, logs one
\* warning and no error, and leaves the processing flag, the speech-seen
\* flag and the buffer as they were.
C16_EmptyCommitIsNoop ==
    [][(lastAct' = "manualCommit" /\ audioBuffer = <<>>)
           => /\ wire' = <<>>
              /\ Len(logs') = 1 /\ logs'[1][1] = "warning"
              /\ isProcessingAudio' = isProcessingAudio
              /\ hasSpeechInBuffer' = hasSpeechInBuffer
              /\ audioBuffer' = <<>>]_vars

C16_Witness ==
    /\ lastAct = "manualCommit"
    /\ ws = "open" /\ ~isProcessingAudio
    /\ audioBuffer = <<>>
    /\ logs = << <<"warning", "no audio data">> >>
    /\ wire = <<>>

\* C17: a clear request while Processing empties the PCM buffer and leaves
\* the session Processing.
C17_ClearKeepsProcessing ==
    [][(lastAct' = "manualClear" /\ isProcessingAudio)
           => (audioBuffer' = <<>> /\ isProcessingAudio')]_vars

\* C18: a clear request with an empty PCM buffer logs a warning and sends
\* nothing.
C18_EmptyClearWarns ==
    [][(lastAct' = "manualClear" /\ audioBuffer = <<>>)
           => /\ wire' = <<>>
              /\ \E i \in DOMAIN logs' : logs'[i][1] = "warning"]_vars

C20_StopCancelsTimer ==
    [][(lastAct' = "chunkTimer" /\ isConnected /\ ~isRecording)
           => (audioBuffer' = audioBuffer /\ wire' = <<>>)]_vars

\* C21: while the session is connected, no update of the configuration
\* changes the silence threshold or the auto-commit delay (the chunk interval,
\* the sample rate and the server address are fixed in this model).
C21_ConfigOnlyWhileDisconnected ==
    [][isConnected => audioConfig' = audioConfig]_vars

\* C23: while the configured auto-commit delay is 0, a commit message is only
\* sent by a manual commit request.
C23_NoAutoCommitWhenDisabled ==
    [][(audioConfig.autoCommitDelay = 0 /\ Sent(wire', "commit"))
           => lastAct' = "manualCommit"]_vars

\* the time elapsed between the sending of the commit and the present
SinceCommit == fed * FrameMs

\* C22: the handling of response.done adds the time elapsed since the commit
\* was sent to the latency sum, and one to the latency count.
C22_LatencyIsTimeSinceCommit ==
    [][lastAct' = "response.done"
           => counted' = <<[ref |-> "latencySum", n |-> SinceCommit],
                           [ref |-> "latencyCount", n |-> 1]>>]_vars

\* C24: the handling of a session.updated, a response.created or an unknown
\* message changes none of the connection, recording, sleeping, processing
\* and speech-seen flags, nor the socket, the session identity or the PCM
\* buffer, adds to no counter and publishes no transcript, command or result
\* (a response.created without its response field ends in a TypeError, with
\* the same state).
C24_InformationalMessagesChangeNothing ==
    [][lastAct' \in {"session.updated", "response.created", "unknown"}
           => /\ UNCHANGED <<isConnected, isRecording, isSleeping,
                             isProcessingAudio, hasSpeechInBuffer, ws,
                             sessionInfo, audioBuffer, silenceDetectionBuffer>>
              /\ counted' = <<>>
              /\ wire' = <<>>
              /\ \A i \in DOMAIN published' : published'[i].kind = "exception"]_vars

\* an unknown message has been handled during a recording in the Processing mode
C24_Witness ==
    /\ lastAct = "unknown"
    /\ isRecording /\ isProcessingAudio
    /\ inbound.type = "unknown"

\* the append messages of w, in the order sent
AppendsOf(w) == SelectSeq(w, LAMBDA m : m.type = "append")

\* the additions of c to the counter ref, in the order applied
OpsOf(c, ref) == SelectSeq(c, LAMBDA o : o.ref = ref)

\* C25: every step adds to the chunk count exactly 1, and to the byte count
\* exactly twice the number of samples, for each append message it sends and
\* for nothing else; nothing it adds to a counter is negative; and a stop, a
\* clear, a disconnect, a connect, an open or a close of the socket writes to
\* no counter.
C25_CountersOnlyAccumulate ==
    /\ \A i \in DOMAIN counted : counted[i].n >= 0
    /\ LET a == AppendsOf(wire)
       IN /\ OpsOf(counted, "chunkCounter")
                = [i \in 1..Len(a) |-> [ref |-> "chunkCounter", n |-> 1]]
          /\ OpsOf(counted, "totalBytes")
                = [i \in 1..Len(a) |->
                      [ref |-> "totalBytes", n |-> 2 * Len(a[i].audio)]]
    /\ lastAct \in {"stopRecording", "manualClear", "disconnect", "connect",
                    "onopen", "onclose"}
          => counted = <<>>

\* a manual commit has just flushed a residue of more than one chunk as one
\* append message
C25_Witness ==
    /\ lastAct = "manualCommit"
    /\ \E i \in DOMAIN wire :
          wire[i].type = "append" /\ Len(wire[i].audio) > samplesPerChunk
    /\ Len(counted) = 2

\* C26: a start of recording whose device acquisition fails leaves the socket,
\* the connected flag, the session identity and the PCM buffer as they were
\* and sends nothing.
C26_DeviceFailureKeepsConnection ==
    [][lastAct' = "startRecordingNoDevice"
           => /\ UNCHANGED <<ws, stale, isConnected, sessionInfo, audioBuffer>>
              /\ isConnected'
              /\ wire' = <<>>]_vars

\* the device acquisition has failed on an open connection with samples
\* still buffered
C26_Witness ==
    /\ lastAct = "startRecordingNoDevice"
    /\ isConnected /\ ws = "open"
    /\ audioBuffer # <<>>
    /\ logs = <<<<"error", "failed to start recording">>>>

\* C27: when a new recording or a new connection begins, the PCM buffer is
\* empty.
C27_BufferEmptyAtSessionStart ==
    [][lastAct' \in {"startRecording", "connect"} => audioBuffer' = <<>>]_vars

\* C28: for every frame the silence detector evaluates (the configuration
\* being the one the recording started with): when the mean of the energy
\* window, the new value included, is at least the silence threshold, the
\* time since the last speech is 0, the speech-seen flag is set and the
\* session is not Sleeping; when the mean is below the threshold, the
\* speech-seen flag is not newly set and the time since the last speech has
\* gone on from its previous value.
C28_SpeechResetsTimer ==
    [][(lastAct' = "frame" /\ ~isProcessingAudio)
           => IF Sum(silenceDetectionBuffer')
                    >= audioConfig.silenceThreshold * Len(silenceDetectionBuffer')
              THEN since' = 0 /\ hasSpeechInBuffer' /\ ~isSleeping'
              ELSE /\ hasSpeechInBuffer' => hasSpeechInBuffer
                   /\ since' = Min(since + FrameMs, MaxSince)]_vars

\* a frame has brought the mean of a full window to exactly the threshold and
\* has woken the session from Sleeping
C28_Witness ==
    /\ lastAct = "frame"
    /\ ~isProcessingAudio
    /\ Len(silenceDetectionBuffer) = silenceDetectionWindow
    /\ Sum(silenceDetectionBuffer)
          = audioConfig.silenceThreshold * Len(silenceDetectionBuffer)
    /\ logs = <<<<"info", "wake">>>>
    /\ hasSpeechInBuffer /\ since = 0 /\ ~isSleeping

\* C30: the energy window never holds more than silenceDetectionWindow
\* values, and after fed evaluated frames it holds the values of the last
\* min(fed, silenceDetectionWindow) frames in their order of arrival.
C30_WindowHoldsLatestValues ==
    /\ Len(silenceDetectionBuffer) <= silenceDetectionWindow
    /\ ~isProcessingAudio
          => LET n == Min(fed, silenceDetectionWindow)
             IN silenceDetectionBuffer = [i \in 1..n |-> ScriptRms(fed - n + i)]

\* the window is full, has dropped its oldest values and holds loud values
\* before quiet ones
C30_Witness ==
    /\ lastAct = "frame"
    /\ ~isProcessingAudio
    /\ fed > silenceDetectionWindow
    /\ Len(silenceDetectionBuffer) = silenceDetectionWindow
    /\ silenceDetectionBuffer[1] = Scenario.loudRms
    /\ silenceDetectionBuffer[silenceDetectionWindow] = Scenario.quietRms

\* speech has been seen, the connection is open, the recording is on, the
\* session is not Processing, auto-commit is enabled and the smoothed energy
\* is below the threshold
AutoCommitDue ==
    /\ hasSpeechInBuffer
    /\ ws = "open" /\ isConnected /\ isRecording
    /\ ~isProcessingAudio
    /\ captureConfig.autoCommitDelay > 0
    /\ IsSilent(silenceDetectionBuffer, captureConfig.silenceThreshold)

\* C29: whenever speech has been seen, the connection is open, the recording
\* is on, the session is not Processing, the auto-commit delay is positive and
\* the smoothed energy is below the threshold, and quiet frames keep
\* arriving, a commit message is eventually sent, the buffer being empty at
\* the first due frame or not.
C29_AutoCommitEventuallySent ==
    AutoCommitDue ~> Sent(wire, "commit")

\* the delay has elapsed at a frame that found the buffer empty: the commit
\* was refused, and speech is still marked as seen
C29_Witness ==
    /\ lastAct = "frame"
    /\ AutoCommitDue
    /\ since >= captureConfig.autoCommitDelay
    /\ logs = <<<<"warning", "no audio data">>>>

\* C31: a firing of the chunk timer either leaves the PCM buffer as it is or
\* takes its first floor(sampleRate * chunkIntervalMs / 1000) samples; an
\* append it sends carries exactly those samples, and the samples after them
\* stay in the buffer in their order.
C31_TimerSendsChunkPrefix ==
    [][lastAct' = "chunkTimer"
           => LET n == (SampleRate * chunkSize) \div 1000
              IN /\ \/ audioBuffer' = audioBuffer
                    \/ /\ Len(audioBuffer) >= n
                       /\ audioBuffer' = SubSeq(audioBuffer, n + 1, Len(audioBuffer))
                 /\ Sent(wire', "append")
                       => /\ wire' = <<[type |-> "append",
                                        audio |-> SubSeq(audioBuffer, 1, n)]>>
                          /\ audioBuffer = wire'[1].audio \o audioBuffer']_vars

\* the timer has sent one chunk out of a buffer holding more than two chunks
C31_Witness ==
    /\ lastAct = "chunkTimer"
    /\ Len(wire) = 1 /\ wire[1].type = "append"
    /\ Len(wire[1].audio) = samplesPerChunk
    /\ Len(audioBuffer) > samplesPerChunk

\* C32: a firing of the chunk timer that removes samples from the PCM buffer
\* sends them in an append message.
C32_TimerNeverDropsChunk ==
    [][(lastAct' = "chunkTimer" /\ audioBuffer' # audioBuffer)
           => Payload(wire') \o audioBuffer' = audioBuffer]_vars

\* C33: once a commit message has been sent, no other commit message is sent
\* as long as neither response.done nor error has arrived and the connection
\* has not been lost.
C33_OneCommitOutstanding ==
    [][~Sent(wire', "commit")]_vars

\* C34: in every reachable state, the sleeping flag being set implies that
\* the speech-seen flag is not.
C34_NeverSleepsOnSpeech ==
    isSleeping => ~hasSpeechInBuffer

\* a frame of speech has woken a Sleeping session and marked speech as seen
C34_Witness ==
    /\ lastAct = "frame"
    /\ logs = <<<<"info", "wake">>>>
    /\ hasSpeechInBuffer /\ ~isSleeping
    /\ isRecording /\ audioBuffer # <<>>

\* C35: while the socket of the latest connect is open, the close event of a
\* replaced socket sets none of the connected, recording and processing
\* flags to false.
C35_StaleCloseLeavesFlags ==
    [][(lastAct' = "staleOnclose" /\ ws = "open")
           => /\ isConnected => isConnected'
              /\ isRecording => isRecording'
              /\ isProcessingAudio => isProcessingAudio']_vars

\* C36: at most one chunk timer loop is live in every reachable state.
C36_SingleTimerLoop ==
    chunkLoops <= 1

\* C37: once the socket has been closed by the other side and until a
\* recording is started again, a frame posted by the worklet is neither
\* evaluated by the silence detector nor appended to the PCM buffer, and
\* attempts no commit.
C37_CloseStopsCapture ==
    [][(lastAct' = "frame" /\ ws = "closed" /\ ~isRecording)
           => /\ UNCHANGED <<silenceDetectionBuffer, audioBuffer,
                             hasSpeechInBuffer, isSleeping>>
              /\ logs' = <<>>]_vars

\* C38: after a start of recording whose device acquisition has failed, the
\* recording flag is false and no chunk timer loop is running.
C38_FailedStartIsNotRecording ==
    [][lastAct' = "startRecordingNoDevice"
           => (~isRecording' /\ chunkLoops' = 0)]_vars

====
